---- MODULE Spec2Model ----
(***************************************************************************)
(* Control plane of src/vLLM.py (web_app): supervision of the vLLM child   *)
(* processes, the admin token, the hot reload of the active backend, the   *)
(* chat relays (/api/chat/stream and /api/chat) and the conversation store *)
(* with its session endpoints (create, rename, delete, export, import).    *)
(*                                                                         *)
(* The handlers are coroutines on one asyncio event loop: code between two *)
(* awaits runs atomically, so every action below is the code from one      *)
(* suspension point to the next.                                           *)
(*                                                                         *)
(* Environment: a backend process moves Starting -> Ready or               *)
(* Starting -> Exited on its own. A Ready backend exits only when the      *)
(* control plane stops it (the source has no supervision of a backend that *)
(* crashes after it became Ready; such crashes are outside this model).    *)
(***************************************************************************)
EXTENDS Integers, Sequences, FiniteSets, TLC

\* ------------------------------------------------------------ constants
BASE_VLLM_PORT == 4321

DEFAULT_MODEL_NAME == "ByteDance-Seed/Seed-OSS-36B-Instruct"

\* ---------------------------------------------------------------- bounds
\* Number of vLLM processes ever started (the initial one included).
MaxStarts == 3

\* Number of /api/models/reload requests that may be in flight together.
MaxReloadHandlers == 2

\* Number of chat requests (/api/chat/stream, /api/chat) over a run.
MaxRelays == 1

\* Number of content deltas of the deterministic backend's reply.
ReplyLen == 2

\* Number of vLLM processes ever started while chat requests are relayed.
MaxRelayStarts == 2

\* Number of sessions made by /api/sessions in a run of the store endpoints.
MaxSessions == 2

\* Number of rows of table templates.
MaxTemplates == 1

\* Number of rows of table messages up to which files are imported.
MaxMessages == 2

\* The longest timeout_s (in seconds) a readiness probe is called with.
MaxProbeTimeout == 2

\* ------------------------------------------------------------- inputs
\* An absent value (Python None): an absent header, an unset secret.
NoToken == <<"-">>

\* "B" stands for the literal prefix 'Bearer '.
HeaderTokens ==
    {NoToken, <<>>, <<"s">>, <<"B", "s">>, <<"x">>, <<"B", "x">>, <<"B">>,
     <<"B", "B", "s">>}

AdminTokens == {NoToken, <<"s">>}

NoModel == "-"

\* body.get('model') of a reload request.
ReloadModels == {NoModel, "local/model-1"}

Handlers == 1..MaxReloadHandlers

\* A chat request with one user message.
OneQuestion == <<[role |-> "user", content |-> <<"q1">>]>>

\* body.get('messages') of a chat request.
Inputs ==
    { OneQuestion,
      <<[role |-> "system", content |-> <<"s0">>],
        [role |-> "user", content |-> <<"q1">>],
        [role |-> "user", content |-> <<"q2">>]>> }

\* body.get('title') of a create or rename request.
NoTitle == "-"

Titles == {NoTitle, "t1"}

\* The bodies of the create requests (of a session, or of a template with
\* title as its name and system as its prompt): nothing given, or all given.
CreateBodies ==
    {[title |-> NoTitle, model |-> NoModel, system |-> <<>>],
     [title |-> "t1", model |-> "local/model-1", system |-> <<"sys">>]}

\* body.get('model') of a chat request.
ChatModels == {NoModel, "local/model-1"}

VARIABLES
    ADMIN_TOKEN,   \* os.environ.get("ADMIN_TOKEN")
    procs,         \* every Popen object created so far, by creation order
    vllm_procs,    \* port -> index in procs of the tracked Popen object
    active_port,   \* the port VLLM_BASE() resolves to
    serving,       \* web_app() has returned the FastAPI app
    rl,            \* the api_models_reload coroutines
    started,       \* history: the ports passed to start_vllm_on_port, in order
    sessions,      \* table sessions: id -> the row's title, model and system
    export_file,   \* the file the last /export wrote and the client kept
    messages,      \* rows of table messages, ordered by id
    next_sid,      \* history: number of ids new_session has drawn
    relays,        \* the chat_stream / chat_once requests
    templates,     \* table templates: id -> the row's name and prompt
    probe          \* a call of wait_vllm_ready_port taken on its own

vars == <<ADMIN_TOKEN, procs, vllm_procs, active_port, serving, rl, started,
          sessions, export_file, messages, next_sid, relays, templates, probe>>

\* nonlocal current_model is never assigned after its initialisation.
current_model == DEFAULT_MODEL_NAME

\* ======================================================= process supervision

Tracked == DOMAIN vllm_procs

\* The map vllm_procs after start_vllm_on_port(port, ...), whose Popen object
\* is the next entry of procs.
StartMap(port) ==
    [q \in Tracked \cup {port} |->
        IF q = port THEN Len(procs) + 1 ELSE vllm_procs[q]]

\* procs after start_vllm_on_port(port, model_ref, ...)
StartProcs(port, model_ref) ==
    Append(procs, [port |-> port, model |-> model_ref, state |-> "Starting"])

\* procs after stop_vllm_port(port) applied to process list ps and map vp:
\* terminate(), wait(10), kill() on timeout; a process already gone is left.
StopProcs(ps, vp, port) ==
    IF port \in DOMAIN vp /\ ps[vp[port]].state \in {"Starting", "Ready"}  \* p and p.poll() is None
    THEN [ps EXCEPT ![vp[port]].state = "Exited"]
    ELSE ps

StopMap_Keep(vp, port) == vp

\* vllm_procs.pop(port, None)
StopMap(vp, port) == [q \in DOMAIN vp \ {port} |-> vp[q]]

\* The ports the supervisor functions are called with when they are driven
\* on their own.
Ports == BASE_VLLM_PORT .. (BASE_VLLM_PORT + MaxStarts)

\* start_vllm_on_port(port, model_ref) as one call: the process is spawned
\* and stored under the port, whatever the map held there.
start_vllm_on_port(port, model_ref) ==
    /\ Len(procs) < MaxStarts
    /\ procs' = StartProcs(port, model_ref)
    /\ vllm_procs' = StartMap(port)
    /\ started' = Append(started, port)
    /\ UNCHANGED <<ADMIN_TOKEN, export_file, active_port, serving, rl,
                   sessions, messages, next_sid, relays, templates, probe>>

\* stop_vllm_port(port) as one call.
stop_vllm_port(port) ==
    /\ procs' = StopProcs(procs, vllm_procs, port)
    /\ vllm_procs' = StopMap(vllm_procs, port)
    /\ UNCHANGED <<ADMIN_TOKEN, export_file, active_port, serving, rl,
                   started, sessions, messages, next_sid, relays, templates,
                   probe>>

\* The process answering HTTP on a port: the tracked one, once it is Ready
\* (0: connection refused). Every untracked process has been terminated.
ServingPid(port) ==
    IF port \in Tracked /\ procs[vllm_procs[port]].state = "Ready"
    THEN vllm_procs[port] ELSE 0

\* ------------------------------------------------------------ access gate
check_admin_token_Raw(header_token) ==
    IF ADMIN_TOKEN = NoToken THEN TRUE
    ELSE IF header_token = NoToken \/ header_token = <<>> THEN FALSE
    ELSE header_token = ADMIN_TOKEN

check_admin_token(header_token) ==
    IF ADMIN_TOKEN = NoToken THEN TRUE
    ELSE IF header_token = NoToken \/ header_token = <<>> THEN FALSE
    ELSE IF Len(header_token) >= 1 /\ Head(header_token) = "B"
         THEN Tail(header_token) = ADMIN_TOKEN
         ELSE header_token = ADMIN_TOKEN

Unauthorized_PresentOnly(authorization) ==
    /\ ADMIN_TOKEN # NoToken /\ ADMIN_TOKEN # <<>>
    /\ authorization # NoToken
    /\ ~check_admin_token(authorization)

\* "if ADMIN_TOKEN and not check_admin_token(authorization)"
Unauthorized(authorization) ==
    ADMIN_TOKEN # NoToken /\ ADMIN_TOKEN # <<>> /\ ~check_admin_token(authorization)

\* ------------------------------------------------------------- environment
\* A starting vLLM finishes loading its model and answers /v1/models.
BackendReady(pid) ==
    /\ procs[pid].state = "Starting"
    /\ procs' = [procs EXCEPT ![pid].state = "Ready"]
    /\ UNCHANGED <<ADMIN_TOKEN, export_file, vllm_procs, active_port, serving,
                   rl, started, sessions, messages, next_sid, relays,
                   templates, probe>>

\* A starting vLLM fails (unknown model, out of memory) and exits.
BackendExit(pid) ==
    /\ procs[pid].state = "Starting"
    /\ procs' = [procs EXCEPT ![pid].state = "Exited"]
    /\ UNCHANGED <<ADMIN_TOKEN, export_file, vllm_procs, active_port, serving,
                   rl, started, sessions, messages, next_sid, relays,
                   templates, probe>>

\* ---------------------------------------------------------- readiness probe
\* What one GET /v1/models of the probe comes back with: status 0 stands for
\* an exception (connection refused, the 10 s timeout, a body that is no
\* JSON); data is j.get('data').
NoAnswer == [status |-> 0, data |-> <<>>]

GoodAnswer == [status |-> 200, data |-> <<"m">>]

BadAnswers ==
    {NoAnswer, [status |-> 200, data |-> <<>>], [status |-> 503, data |-> <<>>],
     [status |-> 503, data |-> <<"m">>]}

\* Only a backend that is up on the port lists its model.
Answers(port) ==
    IF ServingPid(port) # 0 THEN BadAnswers \cup {GoodAnswer} ELSE BadAnswers

\* A call of wait_vllm_ready_port(port, timeout_s): pc "polling" before a
\* GET, "sleeping" in asyncio.sleep(1), "returned" and "raised" once it is
\* over; elapsed is time.time() - start in seconds; last (history) is the
\* answer of the latest GET.
IdleProbe ==
    [pc |-> "idle", port |-> 0, timeout_s |-> 0, elapsed |-> 0,
     last |-> NoAnswer]

\* "if r.status == 200: j = await r.json(); if j.get('data'): return"
PollSucceeds_AnyList(answer) == answer.status = 200

PollSucceeds(answer) == answer.status = 200 /\ answer.data # <<>>

\* The call, up to its first GET.
WaitCall(port, timeout_s) ==
    /\ probe.pc \in {"idle", "returned", "raised"}
    /\ probe' = [IdleProbe EXCEPT !.pc = "polling", !.port = port,
                                  !.timeout_s = timeout_s]
    /\ UNCHANGED <<ADMIN_TOKEN, export_file, procs, vllm_procs, active_port,
                   serving, rl, started, sessions, messages, next_sid, relays,
                   templates>>

\* One GET with its answer: the call returns, or goes to sleep.
WaitPoll(answer) ==
    /\ probe.pc = "polling"
    /\ answer \in Answers(probe.port)
    /\ probe' = [probe EXCEPT !.last = answer,
                              !.pc = IF PollSucceeds(answer) THEN "returned"
                                     ELSE "sleeping"]
    /\ UNCHANGED <<ADMIN_TOKEN, export_file, procs, vllm_procs, active_port,
                   serving, rl, started, sessions, messages, next_sid, relays,
                   templates>>

\* The sleep of one second is over: the deadline is tested.
WaitSleep ==
    /\ probe.pc = "sleeping"
    /\ probe' = [probe EXCEPT !.elapsed = @ + 1,
                              !.pc = IF probe.elapsed + 1 > probe.timeout_s
                                     THEN "raised" ELSE "polling"]
    /\ UNCHANGED <<ADMIN_TOKEN, export_file, procs, vllm_procs, active_port,
                   serving, rl, started, sessions, messages, next_sid, relays,
                   templates>>

\* ------------------------------------------------------------------ startup
\* web_app(): wait_vllm_ready_port(BASE_VLLM_PORT, 600) returned.
InitReady ==
    /\ ~serving
    /\ ServingPid(BASE_VLLM_PORT) # 0
    /\ serving' = TRUE
    /\ UNCHANGED <<ADMIN_TOKEN, export_file, procs, vllm_procs, active_port,
                   rl, started, sessions, messages, next_sid, relays,
                   templates, probe>>

\* web_app(): the wait raised (no poll within the deadline was a 200 with a
\* model list); the exception is printed and the app returned.
InitTimeout ==
    /\ ~serving
    /\ serving' = TRUE
    /\ UNCHANGED <<ADMIN_TOKEN, export_file, procs, vllm_procs, active_port,
                   rl, started, sessions, messages, next_sid, relays,
                   templates, probe>>

\* ------------------------------------------------------------------- reload
\* A coroutine slot: pc is the suspension point, new_port the local, status
\* the status code of the last answer; began_active and began_ready are
\* history (active_port, and whether its backend answered, when the request
\* came in).
IdleReload ==
    [pc |-> "idle", new_port |-> 0, stop_port |-> 0, status |-> 0,
     began_active |-> 0, began_ready |-> FALSE]

\* The slot after its request was answered with status.
Returned(slot, status) ==
    [IdleReload EXCEPT !.status = status, !.began_ready = slot.began_ready]

IdleHandler(h) == rl[h].pc = "idle"

\* The coroutine slot a new request runs in: the lowest free one.
FreeHandler(h) ==
    /\ IdleHandler(h)
    /\ \A g \in Handlers : g < h => ~IdleHandler(g)

SetMax(S) == CHOOSE x \in S : \A y \in S : y <= x

NewPort_Count == BASE_VLLM_PORT + Cardinality(Tracked)

\* new_port = max(list(vllm_procs.keys())+[BASE_VLLM_PORT]) + 1
NewPort == SetMax(Tracked \cup {BASE_VLLM_PORT}) + 1

\* api_models_reload answers 401 or 400 before it starts anything.
ReloadRejected(h, model, authorization) ==
    /\ serving
    /\ FreeHandler(h)
    /\ Unauthorized(authorization) \/ model = NoModel
    /\ rl' = [rl EXCEPT ![h] = Returned(IdleReload,
                 IF Unauthorized(authorization) THEN 401 ELSE 400)]
    /\ UNCHANGED <<ADMIN_TOKEN, export_file, procs, vllm_procs, active_port,
                   serving, started, sessions, messages, next_sid, relays,
                   templates, probe>>

\* api_models_reload up to its first suspension inside wait_vllm_ready_port.
ReloadBegin(h, model, authorization) ==
    /\ serving
    /\ FreeHandler(h)
    /\ ~Unauthorized(authorization)
    /\ model # NoModel
    /\ Len(started) < MaxStarts
    /\ LET new_port == NewPort IN
        /\ procs' = StartProcs(new_port, model)
        /\ vllm_procs' = StartMap(new_port)
        /\ started' = Append(started, new_port)
        /\ rl' = [rl EXCEPT ![h] =
                     [pc |-> "polling", new_port |-> new_port,
                      stop_port |-> 0, status |-> 0,
                      began_active |-> active_port,
                      began_ready |-> ServingPid(active_port) # 0]]
    /\ UNCHANGED <<ADMIN_TOKEN, export_file, active_port, serving, sessions,
                   messages, next_sid, relays, templates, probe>>

\* History: the relays that are reading the stream of the backend at port
\* at the moment stop_vllm_port(port) terminates it.
Supersede(port) ==
    [r \in DOMAIN relays |->
        IF /\ relays[r].pc \in {"streaming", "waiting"}
           /\ relays[r].conn # 0
           /\ port \in Tracked
           /\ relays[r].conn = vllm_procs[port]
        THEN [relays[r] EXCEPT !.superseded = TRUE] ELSE relays[r]]

\* The poll got 200 with a model list: wait_vllm_ready_port returns and
\* api_models_reload runs to its end without another suspension.
ReloadReady_StopNew(h) ==
    /\ rl[h].pc = "polling"
    /\ ServingPid(rl[h].new_port) # 0
    /\ active_port' = rl[h].new_port
    /\ procs' = StopProcs(procs, vllm_procs, rl[h].new_port)
    /\ vllm_procs' = StopMap(vllm_procs, rl[h].new_port)
    /\ rl' = [rl EXCEPT ![h] = Returned(rl[h], 200)]
    /\ relays' = Supersede(rl[h].new_port)
    /\ UNCHANGED <<ADMIN_TOKEN, export_file, serving, started, sessions,
                   messages, next_sid, templates, probe>>

ReloadReady(h) ==
    /\ rl[h].pc = "polling"
    /\ ServingPid(rl[h].new_port) # 0
    /\ LET old_port == active_port IN
        /\ active_port' = rl[h].new_port
        /\ procs' = StopProcs(procs, vllm_procs, old_port)
        /\ vllm_procs' = StopMap(vllm_procs, old_port)
    /\ rl' = [rl EXCEPT ![h] = Returned(rl[h], 200)]
    /\ relays' = Supersede(active_port)
    /\ UNCHANGED <<ADMIN_TOKEN, export_file, serving, started, sessions,
                   messages, next_sid, templates, probe>>

ReloadTimeout_LeaveRunning(h) ==
    /\ rl[h].pc = "polling"
    /\ rl' = [rl EXCEPT ![h] = Returned(rl[h], 500)]
    /\ UNCHANGED <<ADMIN_TOKEN, export_file, procs, vllm_procs, active_port,
                   serving, started, sessions, messages, next_sid, relays,
                   templates, probe>>

\* wait_vllm_ready_port raises: a poll was not a 200 with a model list (the
\* backend was not up, or the GET raised), sleep(1) is over and the deadline
\* has passed; the handler stops the new process and answers 500. The polls
\* that fail before the deadline change nothing.
ReloadTimeout(h) ==
    /\ rl[h].pc = "polling"
    /\ procs' = StopProcs(procs, vllm_procs, rl[h].new_port)
    /\ vllm_procs' = StopMap(vllm_procs, rl[h].new_port)
    /\ rl' = [rl EXCEPT ![h] = Returned(rl[h], 500)]
    /\ UNCHANGED <<ADMIN_TOKEN, export_file, active_port, serving, started,
                   sessions, messages, next_sid, relays, templates, probe>>

\* ------------------------------------------- reload, statement by statement
\* The same handler with the two supervisor calls taken apart: a call begins
\* (the process is spawned, or terminated and waited for) and returns (the
\* entry of vllm_procs is assigned, or popped). pc "starting" and "stopping"
\* are the handler inside start_vllm_on_port(new_port) and inside
\* stop_vllm_port(stop_port).
InCall(h) == rl[h].pc \in {"starting", "stopping"}

CallPort(h) == IF rl[h].pc = "starting" THEN rl[h].new_port ELSE rl[h].stop_port

LoopFree_Threads(h) == TRUE

\* Handler h may run its next statement: api_models_reload is a coroutine of
\* the one event loop, start_vllm_on_port and stop_vllm_port are plain
\* functions without an await, so while another handler is inside one of
\* them the loop runs nothing else.
LoopFree(h) ==
    \A g \in Handlers \ {h} : ~InCall(g) /\ rl[g].pc # "switched"

\* Lines 659-664 and start_vllm_on_port up to the Popen.
LoopReloadBegin(h, model, authorization) ==
    /\ serving
    /\ FreeHandler(h)
    /\ LoopFree(h)
    /\ ~Unauthorized(authorization)
    /\ model # NoModel
    /\ Len(started) < MaxStarts
    /\ LET new_port == NewPort IN
        /\ procs' = StartProcs(new_port, model)
        /\ started' = Append(started, new_port)
        /\ rl' = [rl EXCEPT ![h] =
                     [pc |-> "starting", new_port |-> new_port,
                      stop_port |-> 0, status |-> 0,
                      began_active |-> active_port,
                      began_ready |-> ServingPid(active_port) # 0]]
    /\ UNCHANGED <<ADMIN_TOKEN, export_file, vllm_procs, active_port, serving,
                   sessions, messages, next_sid, relays, templates, probe>>

\* "vllm_procs[port] = proc" and the return, up to the first suspension in
\* wait_vllm_ready_port.
LoopStartReturn(h) ==
    /\ rl[h].pc = "starting"
    /\ LoopFree(h)
    /\ vllm_procs' = [q \in Tracked \cup {rl[h].new_port} |->
                         IF q = rl[h].new_port THEN Len(procs)
                         ELSE vllm_procs[q]]
    /\ rl' = [rl EXCEPT ![h].pc = "polling"]
    /\ UNCHANGED <<ADMIN_TOKEN, export_file, procs, active_port, serving,
                   started, sessions, messages, next_sid, relays, templates,
                   probe>>

LoopSwitch_StopFirst(h) ==
    /\ rl[h].pc = "polling"
    /\ LoopFree(h)
    /\ ServingPid(rl[h].new_port) # 0
    /\ procs' = StopProcs(procs, vllm_procs, active_port)
    /\ rl' = [rl EXCEPT ![h].pc = "switched", ![h].stop_port = active_port,
                        ![h].status = 200]
    /\ UNCHANGED <<ADMIN_TOKEN, export_file, vllm_procs, active_port, serving,
                   started, sessions, messages, next_sid, relays, templates,
                   probe>>

\* The wait returned: "old_port = active_port; active_port = new_port"
\* (pc "switched": before the call of stop_vllm_port; stop_port holds
\* old_port).
LoopSwitch(h) ==
    /\ rl[h].pc = "polling"
    /\ LoopFree(h)
    /\ ServingPid(rl[h].new_port) # 0
    /\ LET old_port == active_port IN
        /\ active_port' = rl[h].new_port
        /\ rl' = [rl EXCEPT ![h].pc = "switched", ![h].stop_port = old_port,
                            ![h].status = 200]
    /\ UNCHANGED <<ADMIN_TOKEN, export_file, procs, vllm_procs, serving,
                   started, sessions, messages, next_sid, relays, templates,
                   probe>>

\* stop_vllm_port(old_port) up to the end of terminate/wait/kill.
LoopStopOld(h) ==
    /\ rl[h].pc = "switched"
    /\ LoopFree(h)
    /\ procs' = StopProcs(procs, vllm_procs, rl[h].stop_port)
    /\ rl' = [rl EXCEPT ![h].pc = "stopping"]
    /\ UNCHANGED <<ADMIN_TOKEN, export_file, vllm_procs, active_port, serving,
                   started, sessions, messages, next_sid, relays, templates,
                   probe>>

\* The wait raised: stop_vllm_port(new_port) up to the end of
\* terminate/wait/kill.
LoopProbeTimeout(h) ==
    /\ rl[h].pc = "polling"
    /\ LoopFree(h)
    /\ procs' = StopProcs(procs, vllm_procs, rl[h].new_port)
    /\ rl' = [rl EXCEPT ![h].pc = "stopping",
                        ![h].stop_port = rl[h].new_port, ![h].status = 500]
    /\ UNCHANGED <<ADMIN_TOKEN, export_file, vllm_procs, active_port, serving,
                   started, sessions, messages, next_sid, relays, templates,
                   probe>>

\* "vllm_procs.pop(port, None)", the return, and the answer of the handler.
LoopStopReturn(h) ==
    /\ rl[h].pc = "stopping"
    /\ LoopFree(h)
    /\ vllm_procs' = StopMap(vllm_procs, rl[h].stop_port)
    /\ rl' = [rl EXCEPT ![h] = Returned(rl[h], rl[h].status)]
    /\ UNCHANGED <<ADMIN_TOKEN, export_file, procs, active_port, serving,
                   started, sessions, messages, next_sid, relays, templates,
                   probe>>

\* ======================================================== conversation store
\* message_add(sid, role, content) for each element of a list of contents;
\* by: history, the relay whose handler made the call.
RECURSIVE AddAll(_, _, _, _, _)
AddAll(ms, sid, role, contents, by) ==
    IF contents = <<>> THEN ms
    ELSE AddAll(Append(ms, [session_id |-> sid, role |-> role,
                            content |-> Head(contents), by |-> by]),
                sid, role, Tail(contents), by)

\* The contents of the user-role elements of body['messages'], in order.
RECURSIVE UserContents(_)
UserContents(input) ==
    IF input = <<>> THEN <<>>
    ELSE IF Head(input).role = "user"
         THEN <<Head(input).content>> \o UserContents(Tail(input))
         ELSE UserContents(Tail(input))

\* "for m in body.get('messages', []): if m.get('role')=='user': message_add"
AppendUserMessages(ms, sid, input, by) ==
    AddAll(ms, sid, "user", UserContents(input), by)

\* The title new_session gives a session by default.
DefaultTitle == "new"

\* The row new_session(title, model, system) inserts (created_at is left
\* out: nothing but the order of the session list reads it).
new_session(title, model, system) ==
    [title |-> title,
     model |-> IF model = NoModel THEN current_model ELSE model,
     system |-> system]

NoRows == [q \in {} |-> new_session(DefaultTitle, NoModel, <<>>)]

\* Table ss after INSERT (of a fresh id) or INSERT OR REPLACE of row at sid.
WithSession(ss, sid, row) ==
    [q \in DOMAIN ss \cup {sid} |-> IF q = sid THEN row ELSE ss[q]]

\* messages_get(sid): role and content of the rows of sid, by id (ts is left
\* out: it is copied along and never read).
RECURSIVE messages_get(_, _)
messages_get(ms, sid) ==
    IF ms = <<>> THEN <<>>
    ELSE IF Head(ms).session_id = sid
         THEN <<[role |-> Head(ms).role, content |-> Head(ms).content]>>
                  \o messages_get(Tail(ms), sid)
         ELSE messages_get(Tail(ms), sid)

NoTemplates == [q \in {} |-> [name |-> "tpl", prompt |-> <<>>]]

Filter_Keep(ms, sid) == ms

RECURSIVE Filter(_, _)
Filter(ms, sid) ==
    IF ms = <<>> THEN <<>>
    ELSE IF Head(ms).session_id = sid THEN Filter(Tail(ms), sid)
         ELSE <<Head(ms)>> \o Filter(Tail(ms), sid)

\* session_delete(sid)
api_sessions_delete(sid) ==
    /\ serving
    /\ messages' = Filter(messages, sid)
    /\ sessions' = [q \in DOMAIN sessions \ {sid} |-> sessions[q]]
    /\ relays' = [r \in DOMAIN relays |->
                    IF relays[r].sid = sid
                    THEN [relays[r] EXCEPT !.wiped = TRUE] ELSE relays[r]]
    /\ UNCHANGED <<ADMIN_TOKEN, export_file, procs, vllm_procs, active_port,
                   serving, rl, started, next_sid, templates, probe>>

\* api_sessions_create: body.get('title', <the default title>)
api_sessions_create(title, model, system) ==
    /\ serving
    /\ sessions' = WithSession(sessions, next_sid + 1,
                       new_session(IF title = NoTitle THEN DefaultTitle
                                   ELSE title, model, system))
    /\ next_sid' = next_sid + 1
    /\ UNCHANGED <<ADMIN_TOKEN, export_file, procs, vllm_procs, active_port,
                   serving, rl, started, messages, relays, templates, probe>>

\* api_sessions_rename: 400 without a title; the UPDATE changes the row of
\* sid if there is one.
api_sessions_rename(sid, new_title) ==
    /\ serving
    /\ sessions' = IF new_title # NoTitle /\ sid \in DOMAIN sessions
                   THEN [sessions EXCEPT ![sid].title = new_title]
                   ELSE sessions
    /\ UNCHANGED <<ADMIN_TOKEN, export_file, procs, vllm_procs, active_port,
                   serving, rl, started, messages, next_sid, relays,
                   templates, probe>>

\* No export file.
NoFile == [session |-> <<>>, messages |-> <<>>]

\* The payload api_sessions_export dumps: dict(s) and messages_get(sid).
ExportPayload(sid) ==
    [session |-> [id |-> sid, title |-> sessions[sid].title,
                  model |-> sessions[sid].model,
                  system |-> sessions[sid].system],
     messages |-> messages_get(messages, sid)]

\* api_sessions_export: 404 when session_get finds no row.
api_sessions_export(sid) ==
    /\ serving
    /\ export_file' = IF sid \in DOMAIN sessions THEN ExportPayload(sid)
                      ELSE export_file
    /\ UNCHANGED <<ADMIN_TOKEN, procs, vllm_procs, active_port, serving, rl,
                   started, sessions, messages, next_sid, relays, templates,
                   probe>>

\* The rows the import inserts for the messages of a payload.
RECURSIVE ImportRows(_, _, _)
ImportRows(ms, sid, msgs) ==
    IF msgs = <<>> THEN ms
    ELSE ImportRows(Append(ms, [session_id |-> sid, role |-> Head(msgs).role,
                                content |-> Head(msgs).content, by |-> 0]),
                    sid, Tail(msgs))

\* The files a client uploads: the export file as it is, or with the id of
\* the session taken out (id 0).
Uploads ==
    IF export_file = NoFile THEN {}
    ELSE {export_file, [export_file EXCEPT !.session.id = 0]}

\* "sid = s.get('id') if s and s.get('id') else uuid.uuid4().hex[:12]"
ImportSid(file) ==
    IF file.session.id # 0 THEN file.session.id ELSE next_sid + 1

\* api_sessions_import of an uploaded export file: the session row is
\* inserted or replaced under the id of the file (a fresh id if the file
\* has none), the messages are inserted.
api_sessions_import(file) ==
    /\ serving
    /\ Len(messages) + Len(file.messages) <= MaxMessages
    /\ LET s == file.session
           sid == ImportSid(file) IN
        /\ sessions' = WithSession(sessions, sid,
                           [title |-> s.title, model |-> s.model,
                            system |-> s.system])
        /\ messages' = ImportRows(messages, sid, file.messages)
        /\ next_sid' = IF s.id # 0 THEN next_sid ELSE next_sid + 1
    /\ UNCHANGED <<ADMIN_TOKEN, export_file, procs, vllm_procs, active_port,
                   serving, rl, started, relays, templates, probe>>

\* The status codes of the answers of the store endpoints, as functions of
\* the request and the store.
\* api_sessions_messages: JSONResponse(messages_get(sid)), an empty list for
\* an id without rows.
api_sessions_messages_status(sid) == 200

\* api_sessions_delete: JSONResponse({'ok': True})
api_sessions_delete_status(sid) == 200

api_sessions_rename_status(sid, new_title) ==
    IF new_title = NoTitle THEN 400 ELSE 200

api_sessions_export_status(sid) ==
    IF sid \notin DOMAIN sessions THEN 404 ELSE 200

\* api_templates_delete: JSONResponse({'ok': True})
api_templates_delete_status(tid) == 200

\* save_template draws a fresh id (uuid4): here the largest id of the table
\* plus one.
NewTid == IF DOMAIN templates = {} THEN 1 ELSE SetMax(DOMAIN templates) + 1

\* api_templates_create: "body.get('name') or 'tpl'"
api_templates_create(name, prompt) ==
    /\ serving
    /\ templates' =
          [q \in DOMAIN templates \cup {NewTid} |->
              IF q = NewTid
              THEN [name |-> IF name = NoTitle THEN "tpl" ELSE name,
                    prompt |-> prompt]
              ELSE templates[q]]
    /\ UNCHANGED <<ADMIN_TOKEN, export_file, procs, vllm_procs, active_port,
                   serving, rl, started, sessions, messages, next_sid, relays,
                   probe>>

\* api_templates_delete: delete_template(tid)
api_templates_delete(tid) ==
    /\ serving
    /\ templates' = [q \in DOMAIN templates \ {tid} |-> templates[q]]
    /\ UNCHANGED <<ADMIN_TOKEN, export_file, procs, vllm_procs, active_port,
                   serving, rl, started, sessions, messages, next_sid, relays,
                   probe>>

\* ============================================================== the backend
\* The lines of the chat-completions stream a backend sends for a request.
\* data: the line starts with 'data:'; done: its payload is [DONE]; content
\* and tool: delta.content and delta.tool_calls of its JSON payload.
\* A text is the sequence of its pieces; concatenation is \o.
TokenLine(t) == [data |-> TRUE, done |-> FALSE, content |-> t, tool |-> FALSE]

DoneLine == [data |-> TRUE, done |-> TRUE, content |-> <<>>, tool |-> FALSE]

\* The body of an error answer: JSON, not an event stream.
ErrorBody ==
    <<[data |-> FALSE, done |-> FALSE, content |-> <<>>, tool |-> FALSE]>>

\* The content deltas of the deterministic reply.
Delta(i) == IF i % 2 = 1 THEN <<"a">> ELSE <<"b">>

\* choices[0].message.content of the non-streamed answer: the whole reply.
Reply == [i \in 1..ReplyLen |-> Delta(i)[1]]

\* What process pid streams for a request naming model: a role-only first
\* delta, the deltas of the reply, and the sentinel; an error body when it
\* does not serve that model (--served-model-name).
BackendStream(pid, model) ==
    IF procs[pid].model = model
    THEN <<TokenLine(<<>>)>> \o [i \in 1..ReplyLen |-> TokenLine(Delta(i))]
            \o <<DoneLine>>
    ELSE ErrorBody

\* ================================================================ the relays
Streams == {r \in DOMAIN relays : relays[r].kind = "stream"}

\* "sid = body.get('session_id') or new_session()"
CreatesSession(sid_in) == sid_in = 0

ResolveSid(sid_in) == IF sid_in = 0 THEN next_sid + 1 ELSE sid_in

\* body.get('session_id') of a chat request: 0 when absent, or an id a
\* session was created with (the session may have been deleted since).
BodySids == 0..next_sid

NewRelay(kind, sid, input, model, pc) ==
    [kind |-> kind, pc |-> pc, sid |-> sid, input |-> input,
     model |-> IF model = NoModel THEN current_model ELSE model,
     url |-> 0, conn |-> 0, pos |-> 0, tokens |-> <<>>,
     srcs |-> {}, superseded |-> FALSE, wiped |-> FALSE, failure |-> "none"]

\* Request r once its coroutine has ended with outcome pc: its locals (the
\* url, the connection, the position in the body) are gone.
Finished(r, pc, tokens) ==
    [relays[r] EXCEPT !.pc = pc, !.tokens = tokens,
                      !.url = 0, !.conn = 0, !.pos = 0, !.srcs = {}]

\* chat_stream: the handler, up to the return of the StreamingResponse.
ChatStreamBegin(sid_in, input, model) ==
    /\ serving
    /\ Len(relays) < MaxRelays
    /\ LET sid == ResolveSid(sid_in) IN
        /\ sessions' = IF CreatesSession(sid_in)
                       THEN WithSession(sessions, sid,
                                new_session(DefaultTitle, NoModel, <<>>))
                       ELSE sessions
        /\ next_sid' = IF CreatesSession(sid_in) THEN next_sid + 1 ELSE next_sid
        /\ messages' = AppendUserMessages(messages, sid, input, Len(relays) + 1)
        /\ relays' = Append(relays, NewRelay("stream", sid, input, model, "resp"))
    /\ UNCHANGED <<ADMIN_TOKEN, export_file, procs, vllm_procs, active_port,
                   serving, rl, started, templates, probe>>

\* History: what went wrong between the relay and its backend. "connect":
\* the connection was refused; "answer": the backend answered the request
\* with an error status and a JSON body; "read": the body broke off.
AnswerFailure(pid, model) ==
    IF BackendStream(pid, model) = ErrorBody THEN "answer" ELSE "none"

\* sse_gen, from its first line to the await of sess.post: the payload is
\* built, the url is formatted from VLLM_BASE(), the request is sent. A
\* refused connection raises and yields the error event.
SseStart(r) ==
    /\ relays[r].kind = "stream"
    /\ relays[r].pc = "resp"
    /\ LET port == active_port
           pid == ServingPid(port) IN
       relays' = IF pid = 0
                 THEN [relays EXCEPT ![r] = [Finished(r, "error", <<>>)
                                             EXCEPT !.failure = "connect"]]
                 ELSE [relays EXCEPT ![r].url = port, ![r].conn = pid,
                                     ![r].pc = "streaming",
                                     ![r].failure = AnswerFailure(pid, relays[r].model)]
    /\ UNCHANGED <<ADMIN_TOKEN, export_file, procs, vllm_procs, active_port,
                   serving, rl, started, sessions, messages, next_sid,
                   templates, probe>>

\* The process the next chunk of relay r is read from: the one its
\* connection was opened to.
ChunkSource_Reresolve(r) == ServingPid(active_port)

ChunkSource(r) == relays[r].conn

Alive(pid) == pid # 0 /\ procs[pid].state = "Ready"

\* sse_gen on one line of a chunk: lines without 'data:' are skipped, [DONE]
\* yields the done event and returns, delta.content yields a token event
\* (tokens: the texts of the token events yielded so far; a tool_calls delta
\* yields a tool event, which is no part of the state). The end of the body
\* without [DONE] ends the generator. Nothing is written to the store.
SseChunk(r) ==
    /\ relays[r].kind = "stream"
    /\ relays[r].pc = "streaming"
    /\ LET pid == ChunkSource(r) IN
        /\ Alive(pid)
        /\ LET stream == BackendStream(pid, relays[r].model)
               pos == relays[r].pos IN
           IF pos >= Len(stream)
           THEN relays' = [relays EXCEPT
                               ![r] = Finished(r, "eof", relays[r].tokens)]
           ELSE LET line == stream[pos + 1] IN
                IF line.data /\ line.done
                THEN relays' = [relays EXCEPT
                                   ![r] = Finished(r, "done", relays[r].tokens)]
                ELSE relays' = [relays EXCEPT
                        ![r].pos = pos + 1,
                        ![r].srcs = @ \cup {pid},
                        ![r].tokens = IF line.data /\ line.content # <<>>
                                      THEN Append(@, line.content) ELSE @]
    /\ UNCHANGED <<ADMIN_TOKEN, export_file, procs, vllm_procs, active_port,
                   serving, rl, started, sessions, messages, next_sid,
                   templates, probe>>

\* iter_chunks hands over the bytes as they arrive: a chunk may end inside a
\* line. The head of the cut line is no complete JSON (or not '[DONE]'), its
\* tail does not start with 'data:': both are skipped and the line is lost.
SseChunkCut(r) ==
    /\ relays[r].kind = "stream"
    /\ relays[r].pc = "streaming"
    /\ LET pid == ChunkSource(r) IN
        /\ Alive(pid)
        /\ relays[r].pos < Len(BackendStream(pid, relays[r].model))
        /\ relays' = [relays EXCEPT ![r].pos = @ + 1,
                                    ![r].srcs = @ \cup {pid}]
    /\ UNCHANGED <<ADMIN_TOKEN, export_file, procs, vllm_procs, active_port,
                   serving, rl, started, sessions, messages, next_sid,
                   templates, probe>>

\* The backend of the connection was terminated: the read raises (the error
\* event is yielded) or the body just ends.
SseLost(r, outcome) ==
    /\ relays[r].kind = "stream"
    /\ relays[r].pc = "streaming"
    /\ ~Alive(relays[r].conn)
    /\ relays' = [relays EXCEPT ![r] = [Finished(r, outcome, relays[r].tokens)
                                        EXCEPT !.failure = "read"]]
    /\ UNCHANGED <<ADMIN_TOKEN, export_file, procs, vllm_procs, active_port,
                   serving, rl, started, sessions, messages, next_sid,
                   templates, probe>>

\* The concatenation of a sequence of texts.
RECURSIVE Concat(_)
Concat(texts) ==
    IF texts = <<>> THEN <<>> ELSE Head(texts) \o Concat(Tail(texts))

\* The client went away: the generator gets CancelledError at its await (or
\* is never started) and returns.
SseCancel_SavePartial(r) ==
    /\ relays[r].kind = "stream"
    /\ relays[r].pc \in {"resp", "streaming"}
    /\ relays' = [relays EXCEPT
                     ![r] = Finished(r, "cancelled", relays[r].tokens)]
    /\ messages' = AddAll(messages, relays[r].sid, "assistant",
                          <<Concat(relays[r].tokens)>>, r)
    /\ UNCHANGED <<ADMIN_TOKEN, export_file, procs, vllm_procs, active_port,
                   serving, rl, started, sessions, next_sid, templates,
                   probe>>

SseCancel_LeaveOpen(r) ==
    /\ relays[r].kind = "stream"
    /\ relays[r].pc \in {"resp", "streaming"}
    /\ relays' = [relays EXCEPT ![r].pc = "cancelled"]
    /\ UNCHANGED <<ADMIN_TOKEN, export_file, procs, vllm_procs, active_port,
                   serving, rl, started, sessions, messages, next_sid,
                   templates, probe>>

SseCancel(r) ==
    /\ relays[r].kind = "stream"
    /\ relays[r].pc \in {"resp", "streaming"}
    /\ relays' = [relays EXCEPT
                     ![r] = Finished(r, "cancelled", relays[r].tokens)]
    /\ UNCHANGED <<ADMIN_TOKEN, export_file, procs, vllm_procs, active_port,
                   serving, rl, started, sessions, messages, next_sid,
                   templates, probe>>

\* chat_once up to the await of sess.post. A refused connection raises out
\* of the handler.
ChatOnceBegin_AppendLater(sid_in, input, model) ==
    /\ serving
    /\ Len(relays) < MaxRelays
    /\ LET sid == ResolveSid(sid_in)
           port == active_port
           pid == ServingPid(port) IN
        /\ sessions' = IF CreatesSession(sid_in)
                       THEN WithSession(sessions, sid,
                                new_session(DefaultTitle, NoModel, <<>>))
                       ELSE sessions
        /\ next_sid' = IF CreatesSession(sid_in) THEN next_sid + 1 ELSE next_sid
        /\ relays' = Append(relays,
              IF pid = 0 THEN NewRelay("once", sid, input, model, "raised")
              ELSE [NewRelay("once", sid, input, model, "waiting")
                    EXCEPT !.url = port, !.conn = pid])
    /\ UNCHANGED <<ADMIN_TOKEN, export_file, procs, vllm_procs, active_port,
                   serving, rl, started, messages, templates, probe>>

ChatOnceBegin(sid_in, input, model) ==
    /\ serving
    /\ Len(relays) < MaxRelays
    /\ LET sid == ResolveSid(sid_in)
           port == active_port
           pid == ServingPid(port) IN
        /\ sessions' = IF CreatesSession(sid_in)
                       THEN WithSession(sessions, sid,
                                new_session(DefaultTitle, NoModel, <<>>))
                       ELSE sessions
        /\ next_sid' = IF CreatesSession(sid_in) THEN next_sid + 1 ELSE next_sid
        /\ messages' = AppendUserMessages(messages, sid, input, Len(relays) + 1)
        /\ relays' = Append(relays,
              IF pid = 0 THEN NewRelay("once", sid, input, model, "raised")
              ELSE [NewRelay("once", sid, input, model, "waiting")
                    EXCEPT !.url = port, !.conn = pid])
    /\ UNCHANGED <<ADMIN_TOKEN, export_file, procs, vllm_procs, active_port,
                   serving, rl, started, templates, probe>>

\* chat_once after the answer arrived: a status other than 200 is returned
\* as the error, a non-empty reply is stored as the assistant message. A
\* terminated backend makes the await raise.
ChatOnceResp(r) ==
    /\ relays[r].kind = "once"
    /\ relays[r].pc = "waiting"
    /\ LET pid == relays[r].conn IN
       IF ~Alive(pid)
       THEN /\ relays' = [relays EXCEPT ![r] = Finished(r, "raised", <<>>)]
            /\ UNCHANGED messages
       ELSE IF procs[pid].model # relays[r].model
       THEN /\ relays' = [relays EXCEPT ![r] = Finished(r, "httperr", <<>>)]
            /\ UNCHANGED messages
       ELSE /\ relays' = [relays EXCEPT ![r] = Finished(r, "done", <<Reply>>)]
            /\ messages' = IF Reply # <<>>
                           THEN AddAll(messages, relays[r].sid, "assistant",
                                       <<Reply>>, r)
                           ELSE messages
    /\ UNCHANGED <<ADMIN_TOKEN, export_file, procs, vllm_procs, active_port,
                   serving, rl, started, sessions, next_sid, templates,
                   probe>>

\* ------------------------------------------------------------ specification
Init ==
    /\ ADMIN_TOKEN \in AdminTokens
    /\ procs = <<[port |-> BASE_VLLM_PORT, model |-> DEFAULT_MODEL_NAME,
                  state |-> "Starting"]>>
    /\ vllm_procs = [q \in {BASE_VLLM_PORT} |-> 1]
    /\ active_port = BASE_VLLM_PORT
    /\ serving = FALSE
    /\ rl = [h \in Handlers |-> IdleReload]
    /\ started = <<BASE_VLLM_PORT>>
    /\ sessions = NoRows
    /\ export_file = NoFile
    /\ messages = <<>>
    /\ next_sid = 0
    /\ relays = <<>>
    /\ templates = NoTemplates
    /\ probe = IdleProbe

ReloadNext ==
    \/ \E pid \in DOMAIN procs : BackendReady(pid)
    \/ \E pid \in DOMAIN procs : BackendExit(pid)
    \/ InitReady
    \/ InitTimeout
    \/ \E h \in Handlers, m \in ReloadModels, t \in HeaderTokens :
           ReloadRejected(h, m, t)
    \/ \E h \in Handlers, m \in ReloadModels, t \in HeaderTokens :
           ReloadBegin(h, m, t)
    \/ \E h \in Handlers : ReloadReady(h)
    \/ \E h \in Handlers : ReloadTimeout(h)

RelayNext ==
    \/ \E sid \in BodySids, i \in Inputs, m \in ChatModels :
           ChatStreamBegin(sid, i, m)
    \/ \E r \in DOMAIN relays : SseStart(r)
    \/ \E r \in DOMAIN relays : SseChunk(r)
    \/ \E r \in DOMAIN relays, o \in {"error", "eof"} : SseLost(r, o)
    \/ \E r \in DOMAIN relays : SseCancel(r)
    \/ \E sid \in BodySids, i \in Inputs, m \in ChatModels :
           ChatOnceBegin(sid, i, m)
    \/ \E r \in DOMAIN relays : ChatOnceResp(r)
    \/ \E sid \in BodySids \ {0} : api_sessions_delete(sid)

\* The reload requests, any number of them in flight.
SpecReload == Init /\ [][ReloadNext]_vars

\* The chat requests, with reload requests that come one after the other and
\* no admin secret set.
InitRelay == Init /\ ADMIN_TOKEN = NoToken

SeqReloadNext ==
    \/ \E pid \in DOMAIN procs : BackendReady(pid)
    \/ \E pid \in DOMAIN procs : BackendExit(pid)
    \/ InitReady
    \/ InitTimeout
    \/ \E m \in ReloadModels \ {NoModel} :
           Len(started) < MaxRelayStarts /\ ReloadBegin(1, m, NoToken)
    \/ ReloadReady(1)
    \/ ReloadTimeout(1)

SpecRelay == InitRelay /\ [][SeqReloadNext \/ RelayNext]_vars

\* Calls of wait_vllm_ready_port for any port, one after the other, while
\* the backends are started, stopped and come up.
ProbeNext ==
    \/ \E port \in Ports, t \in 0..MaxProbeTimeout : WaitCall(port, t)
    \/ \E a \in BadAnswers \cup {GoodAnswer} : WaitPoll(a)
    \/ WaitSleep

\* A call of the probe that is not over takes its next step: the GET has a
\* timeout of 10 s and the sleep lasts 1 s.
WaitStep == (\E a \in BadAnswers \cup {GoodAnswer} : WaitPoll(a)) \/ WaitSleep

SpecProbe ==
    /\ Init
    /\ [][ProbeNext \/ (\E pid \in DOMAIN procs : BackendReady(pid))
                    \/ (\E pid \in DOMAIN procs : BackendExit(pid))]_vars
    /\ WF_vars(WaitStep)

\* The two functions of the process supervision, called in any order with
\* any port, and the backends' own progress.
SupervisorNext ==
    \/ \E pid \in DOMAIN procs : BackendReady(pid)
    \/ \E pid \in DOMAIN procs : BackendExit(pid)
    \/ \E port \in Ports, m \in ReloadModels \ {NoModel} :
           start_vllm_on_port(port, m)
    \/ \E port \in Ports : stop_vllm_port(port)

SpecSupervisor == Init /\ [][SupervisorNext]_vars

\* The reload requests with the supervisor calls taken apart.
LoopNext ==
    \/ \E pid \in DOMAIN procs : BackendReady(pid)
    \/ \E pid \in DOMAIN procs : BackendExit(pid)
    \/ InitReady
    \/ InitTimeout
    \/ \E h \in Handlers, m \in ReloadModels, t \in HeaderTokens :
           LoopFree(h) /\ ReloadRejected(h, m, t)
    \/ \E h \in Handlers, m \in ReloadModels, t \in HeaderTokens :
           LoopReloadBegin(h, m, t)
    \/ \E h \in Handlers : LoopStartReturn(h)
    \/ \E h \in Handlers : LoopSwitch(h)
    \/ \E h \in Handlers : LoopStopOld(h)
    \/ \E h \in Handlers : LoopProbeTimeout(h)
    \/ \E h \in Handlers : LoopStopReturn(h)

SpecLoop == Init /\ [][LoopNext]_vars

\* The endpoints of the conversation store, with /api/chat as the source of
\* messages and no reload.
StoreNext ==
    \/ \E pid \in DOMAIN procs : BackendReady(pid)
    \/ InitReady
    \/ InitTimeout
    \/ \E b \in CreateBodies :
           next_sid < MaxSessions
               /\ api_sessions_create(b.title, b.model, b.system)
    \/ \E sid \in BodySids \ {0}, t \in Titles : api_sessions_rename(sid, t)
    \/ \E sid \in BodySids \ {0} : api_sessions_delete(sid)
    \/ \E sid \in BodySids \ {0} : api_sessions_export(sid)
    \/ \E f \in Uploads :
           (f.session.id = 0 => next_sid < MaxSessions)
               /\ api_sessions_import(f)
    \/ \E b \in CreateBodies :
           Cardinality(DOMAIN templates) < MaxTemplates
               /\ api_templates_create(b.title, b.system)
    \/ \E tid \in 1..MaxTemplates : api_templates_delete(tid)
    \/ \E sid \in BodySids, i \in Inputs : ChatOnceBegin(sid, i, NoModel)
    \/ \E r \in DOMAIN relays : ChatOnceResp(r)

SpecStore == InitRelay /\ [][StoreNext]_vars

\* Sessions that get their messages from /api/chat and from imported files,
\* templates, and the deletion of sessions.
CascadeNext ==
    \/ \E pid \in DOMAIN procs : BackendReady(pid)
    \/ InitReady
    \/ InitTimeout
    \/ \E sid \in BodySids : ChatOnceBegin(sid, OneQuestion, NoModel)
    \/ \E r \in DOMAIN relays : ChatOnceResp(r)
    \/ \E sid \in BodySids \ {0} : api_sessions_export(sid)
    \/ \E f \in Uploads :
           (f.session.id = 0 => next_sid < MaxSessions)
               /\ api_sessions_import(f)
    \/ Cardinality(DOMAIN templates) < MaxTemplates
           /\ api_templates_create("t1", <<"sys">>)
    \/ \E sid \in BodySids \ {0} : api_sessions_delete(sid)

SpecCascade == InitRelay /\ [][CascadeNext]_vars

\* The chat requests with reload requests that may overlap.
SpecOverlap == InitRelay /\ [][ReloadNext \/ RelayNext]_vars

\* The same, and the chunks of a streamed body may end inside a line.
ChunkNext == \E r \in DOMAIN relays : SseChunkCut(r)

SpecChunks == InitRelay /\ [][SeqReloadNext \/ RelayNext \/ ChunkNext]_vars

Next ==
    ReloadNext \/ RelayNext \/ ChunkNext \/ StoreNext \/ SupervisorNext
        \/ LoopNext \/ ProbeNext

Spec == Init /\ [][Next]_vars

\* ==================================================================== claims

\* The backend VLLM_BASE() resolves to is tracked, running and Ready.
ActiveIsReady ==
    /\ active_port \in Tracked
    /\ procs[vllm_procs[active_port]].state = "Ready"

InFlight(h) == rl[h].pc # "idle"

\* The contents of the stored messages that request r added with a role among
\* roles, in the order of the store.
RECURSIVE ContentsBy(_, _, _)
ContentsBy(ms, r, roles) ==
    IF ms = <<>> THEN <<>>
    ELSE IF Head(ms).by = r /\ Head(ms).role \in roles
              /\ Head(ms).session_id = relays[r].sid
         THEN <<Head(ms).content>> \o ContentsBy(Tail(ms), r, roles)
         ELSE ContentsBy(Tail(ms), r, roles)

AddedBy(r) == {i \in DOMAIN messages : messages[i].by = r}

\* C1: the ports passed to start form a strictly increasing sequence, so no
\* port is passed to start twice, whatever the reloads did (succeed or fail).
C1_StartedPortsStrictlyIncreasing ==
    \A i, j \in DOMAIN started : i < j => started[i] < started[j]

\* C2: at most one reload is between the start of its new backend and the end
\* of its readiness wait; a second request in that window starts nothing.
C2_OneReloadAtATime ==
    Cardinality({h \in Handlers : InFlight(h)}) <= 1

\* C3: from the moment a reload came in while the active backend was Ready,
\* through its readiness wait and after its successful return, active_port
\* refers to a tracked, running, Ready backend.
C3_ActiveReadyThroughReload ==
    \A h \in Handlers :
        (rl[h].began_ready /\ (InFlight(h) \/ rl[h].status = 200))
            => ActiveIsReady

\* C3 witness: a reload that came in on a Ready backend has returned 200 and
\* active_port is its new port, the old backend being stopped and untracked.
C3_Witness ==
    \E h \in Handlers :
        /\ rl[h].began_ready /\ rl[h].status = 200 /\ ~InFlight(h)
        /\ active_port # BASE_VLLM_PORT
        /\ BASE_VLLM_PORT \notin Tracked
        /\ procs[1].state = "Exited"

\* C4: when a reload returns after its readiness wait timed out, it answers
\* with an error, its new process is stopped and untracked, and active_port
\* is what it was when the request came in.
C4_FailedReloadRestoresActivePort ==
    [][\A h \in Handlers :
          (rl[h].pc = "polling" /\ rl'[h].pc = "idle" /\ rl'[h].status # 200)
              => /\ rl'[h].status = 500
                 /\ rl[h].new_port \notin DOMAIN vllm_procs'
                 /\ procs'[vllm_procs[rl[h].new_port]].state = "Exited"
                 /\ active_port' = rl[h].began_active]_vars

\* C5: whenever requests can be served, active_port refers to a backend that
\* is serving (Ready; the code has no Draining state).
C5_ActiveAlwaysServing == serving => ActiveIsReady

\* C6: a streaming relay that received the terminal sentinel has stored the
\* concatenation of its token texts as exactly one assistant message of its
\* session.
C6_StreamDonePersistsReply ==
    \A r \in Streams :
        (relays[r].pc = "done" /\ ~relays[r].wiped)
            => ContentsBy(messages, r, {"assistant"})
                   = <<Concat(relays[r].tokens)>>

\* C7: a cancelled streaming relay has added no assistant message: all it
\* added to the store are the user messages of its request.
C7_CancelledStreamAddsNoAssistant ==
    \A r \in Streams :
        relays[r].pc = "cancelled"
            => /\ \A i \in AddedBy(r) : messages[i].role = "user"
               /\ ~relays[r].wiped =>
                      ContentsBy(messages, r, {"user", "assistant"})
                          = UserContents(relays[r].input)

\* C7 witness: a relay cancelled after it had emitted a token, whose user
\* messages are in the store.
C7_Witness ==
    \E r \in Streams :
        /\ relays[r].pc = "cancelled"
        /\ relays[r].tokens # <<>>
        /\ ~relays[r].wiped
        /\ AddedBy(r) # {}

\* C8: from the moment its backend request is issued, and whatever happens
\* to the relay afterwards, the user messages of a chat request (streaming
\* or not) are in its session, in order, unless the session was deleted.
C8_UserMessagesStoredBeforeRequest ==
    \A r \in DOMAIN relays :
        ~relays[r].wiped
            => ContentsBy(messages, r, {"user"}) = UserContents(relays[r].input)

\* C8 witness: a request with two user messages whose backend call failed or
\* was cancelled, and a non-streaming one waiting for its answer, each with
\* its user messages stored.
C8_Witness ==
    \E r \in DOMAIN relays :
        /\ relays[r].pc \in {"error", "cancelled", "raised", "waiting"}
        /\ ~relays[r].wiped
        /\ Len(UserContents(relays[r].input)) = 2
        /\ ContentsBy(messages, r, {"user"}) = UserContents(relays[r].input)

\* C9: every chunk a streaming relay has read came from the process its one
\* connection was opened to, on the port read from active_port at the start,
\* also when a reload has changed active_port since.
C9_ChunksFromPortReadAtStart ==
    \A r \in Streams :
        relays[r].pc = "streaming"
            => /\ relays[r].srcs \subseteq {relays[r].conn}
               /\ procs[relays[r].conn].port = relays[r].url

\* C9 witness: a relay that has read chunks while active_port has moved to
\* another port.
C9_Witness ==
    \E r \in Streams :
        /\ relays[r].pc = "streaming"
        /\ relays[r].srcs # {}
        /\ active_port # relays[r].url

\* C10: a relay that was streaming from the old backend when a reload
\* stopped it is not cut off: it does not end with an error or a body that
\* ends without the sentinel.
C10_SupersededRelayNotCutOff ==
    \A r \in Streams :
        relays[r].superseded => relays[r].pc \notin {"error", "eof"}

\* ---------------------------------------------------------------- C11, C12
\* A secret is configured (an ADMIN_TOKEN set to the empty string is not one:
\* the handlers test "if ADMIN_TOKEN and ...").
SecretConfigured == ADMIN_TOKEN # NoToken /\ ADMIN_TOKEN # <<>>

\* The presented token without one leading 'Bearer '.
StripBearer(token) ==
    IF Len(token) >= 1 /\ Head(token) = "B" THEN Tail(token) ELSE token

\* The presented token is the secret, with or without the bearer prefix.
PresentsSecret(token) ==
    /\ token # NoToken
    /\ token # <<>>
    /\ StripBearer(token) = ADMIN_TOKEN

\* C11: with a secret configured, a reload request that carries no token or
\* a token that is not the secret is answered 401, starts no process and
\* changes neither the tracked ports nor active_port; with no secret
\* configured the same request is not answered 401 and, given a model,
\* proceeds to start the new backend.
C11_ReloadNeedsToken ==
    [][\A h \in Handlers, m \in ReloadModels, a \in HeaderTokens :
        /\ (SecretConfigured /\ ~PresentsSecret(a)) =>
              /\ ~ReloadBegin(h, m, a)
              /\ (serving /\ FreeHandler(h)) => ENABLED ReloadRejected(h, m, a)
              /\ ReloadRejected(h, m, a) =>
                    /\ rl'[h].status = 401
                    /\ UNCHANGED <<procs, vllm_procs, active_port, started>>
        /\ ~SecretConfigured =>
              /\ ReloadRejected(h, m, a) => rl'[h].status # 401
              /\ (serving /\ FreeHandler(h) /\ m # NoModel
                     /\ Len(started) < MaxStarts) => ENABLED ReloadBegin(h, m, a)
      ]_vars

\* A request without the secret was answered 401 while a secret is
\* configured, and nothing but the initial backend was ever started.
C11_Witness ==
    /\ SecretConfigured
    /\ \E h \in Handlers : rl[h].status = 401
    /\ started = <<BASE_VLLM_PORT>>
    /\ Tracked = {BASE_VLLM_PORT}

\* C12: check_admin_token allows every token when no secret is configured;
\* with a secret it allows exactly the tokens that equal the secret after one
\* optional leading bearer prefix is removed, and denies every other input,
\* the absent and the empty token included.
C12_AuthorizeExactlySecret ==
    \A t \in HeaderTokens :
        check_admin_token(t) <=> (ADMIN_TOKEN = NoToken \/ PresentsSecret(t))

\* With a secret configured one reload was let through and another one was
\* turned away.
C12_Witness ==
    /\ SecretConfigured
    /\ \E h, g \in Handlers : rl[h].pc = "polling" /\ rl[g].status = 401

\* ---------------------------------------------------------------- C13, C14
\* C13: a streaming relay that met a connection failure, a read error or an
\* error answer of the backend has, once it ended, emitted the error event
\* (its one terminal event) and stored no assistant message.
C13_BackendErrorOneErrorEvent ==
    \A r \in Streams :
        (relays[r].failure # "none" /\ relays[r].pc \in {"done", "eof", "error"})
            => /\ relays[r].pc = "error"
               /\ \A i \in AddedBy(r) : messages[i].role # "assistant"

\* C14: the texts of the token events of a streaming relay that got its done
\* event, concatenated, are the reply /api/chat returns from the same
\* deterministic backend for the same messages and parameters.
C14_StreamEqualsOnce ==
    \A r \in Streams :
        relays[r].pc = "done" => Concat(relays[r].tokens) = Reply

\* ---------------------------------------------------------------------- C15
\* C15: importing the file of an exported session, whether or not the
\* session is still in the store, leaves a session with the id, title, model
\* and system prompt of the file and with exactly the messages of the file,
\* in their order.
C15_ExportImportRoundTrip ==
    [][\A f \in Uploads :
        api_sessions_import(f) =>
            LET s == f.session
                sid == ImportSid(f) IN
            /\ sid \in DOMAIN sessions'
            /\ sessions'[sid] = [title |-> s.title, model |-> s.model,
                                 system |-> s.system]
            /\ messages_get(messages', sid) = f.messages
      ]_vars

\* ---------------------------------------------------------------------- C16
\* The upstream request of relay r is open: its connection is held.
UpstreamOpen(r) == relays[r].conn # 0

\* C16: a cancelled streaming relay holds no upstream request (the request
\* is closed by the step that cancels the relay), and from then on it emits
\* no event: its outcome stays "cancelled", never "error" or "done", and its
\* token events stay what they were.
C16_CancelClosesUpstream ==
    [][\A r \in Streams :
        /\ relays'[r].pc = "cancelled" => ~UpstreamOpen(r)'
        /\ relays[r].pc = "cancelled" =>
              /\ relays'[r].pc = "cancelled"
              /\ relays'[r].tokens = relays[r].tokens
      ]_vars

\* A relay was cancelled in the middle of the reply: the first token had
\* been relayed, the rest was never read.
C16_Witness ==
    \E r \in Streams :
        /\ relays[r].pc = "cancelled"
        /\ Len(relays[r].tokens) = 1
        /\ ~UpstreamOpen(r)

\* ---------------------------------------------------------------- C17, C18
\* C17: start_vllm_on_port on a tracked port fails and leaves the tracked
\* process (and every process) as it was; on an untracked port it records the
\* new process under the port.
C17_StartRefusesTrackedPort ==
    [][\A port \in Ports, m \in ReloadModels :
        start_vllm_on_port(port, m) =>
            IF port \in Tracked
            THEN UNCHANGED <<procs, vllm_procs>>
            ELSE /\ port \in Tracked'
                 /\ vllm_procs'[port] = Len(procs')
                 /\ procs'[Len(procs')].port = port
                 /\ \A q \in Tracked : vllm_procs'[q] = vllm_procs[q]
      ]_vars

\* C18: stop_vllm_port leaves the port untracked and active_port as it was;
\* on an untracked port it changes neither the processes nor the tracked
\* ports; a second stop of the same port changes nothing any more.
C18_StopIdempotent ==
    [][\A port \in Ports :
        stop_vllm_port(port) =>
            /\ port \notin Tracked'
            /\ UNCHANGED active_port
            /\ port \notin Tracked => UNCHANGED <<procs, vllm_procs>>
            /\ \A q \in Tracked \ {port} :
                  q \in Tracked' /\ vllm_procs'[q] = vllm_procs[q]
            /\ StopProcs(procs', vllm_procs', port) = procs'
            /\ StopMap(vllm_procs', port) = vllm_procs'
      ]_vars

\* Two processes were started and one of them was stopped: it has exited
\* and its port is not tracked, the other is still tracked.
C18_Witness ==
    /\ Len(procs) >= 2
    /\ \E pid \in DOMAIN procs :
          procs[pid].state = "Exited" /\ procs[pid].port \notin Tracked
    /\ Tracked # {}

\* ---------------------------------------------------------------------- C20
\* C20: the control plane starts to accept requests only when the wait for
\* the first backend has succeeded: if the backend on BASE_VLLM_PORT is not
\* answering when the startup wait is over, the application is not served.
C20_StartupFailureIsFatal ==
    [][(~serving /\ serving') => ServingPid(BASE_VLLM_PORT) # 0]_vars

\* ---------------------------------------------------------------------- C19
\* C19: whatever the interleaving of the reload requests, no two calls of
\* start_vllm_on_port or stop_vllm_port for the same port are in progress
\* at the same time.
C19_StartStopNeverOverlap ==
    \A h, g \in Handlers :
        (h # g /\ InCall(h) /\ InCall(g)) => CallPort(h) # CallPort(g)

\* One reload is inside stop_vllm_port while another reload, begun before,
\* is waiting for its own backend.
C19_Witness ==
    \E h, g \in Handlers :
        /\ h # g
        /\ rl[h].pc = "stopping"
        /\ rl[g].pc = "polling"

\* ---------------------------------------------------------------------- C21
\* C21: wait_vllm_ready_port returns only on a GET answered 200 with a
\* non-empty model list (an answer that is an exception, another status or
\* an empty list never makes it return); no step of a call changes the
\* tracked ports or active_port; and every call ends, returning or raising,
\* after at most timeout_s + 1 sleeps.
C21_WaitReadyContract ==
    /\ [](probe.pc = "returned" =>
            probe.last.status = 200 /\ Len(probe.last.data) > 0)
    /\ [][probe' # probe => UNCHANGED <<vllm_procs, active_port>>]_vars
    /\ [](probe.elapsed <= probe.timeout_s + 1)
    /\ [](probe.pc \in {"polling", "sleeping"} =>
            <>(probe.pc \in {"returned", "raised"}))

\* A call returned on a good answer after a poll that had failed.
C21_Witness ==
    /\ probe.pc = "returned"
    /\ probe.elapsed >= 1
    /\ probe.last.status = 200

\* ---------------------------------------------------------------------- C22
\* C22: a streaming relay whose backend request is issued while a reload is
\* waiting for readiness is not held back by the reload (the request can be
\* issued in that state) and goes to the port that was active when that
\* reload came in.
C22_RelayDuringReloadUsesOldPort ==
    [][\A r \in Streams, h \in Handlers :
        (relays[r].pc = "resp" /\ rl[h].pc = "polling") =>
            /\ ENABLED SseStart(r)
            /\ (SseStart(r) /\ relays'[r].pc = "streaming") =>
                  relays'[r].url = rl[h].began_active
      ]_vars

\* ---------------------------------------------------------------------- C23
\* Session ids that were never drawn or whose session was deleted, and
\* template ids without a row.
UnknownSids == (1..(next_sid + 1)) \ DOMAIN sessions

UnknownTids == (1..(MaxTemplates + 1)) \ DOMAIN templates

\* C23: once the application is served, listing the messages of, deleting,
\* renaming and exporting an unknown session and deleting an unknown
\* template are answered 404.
C23_UnknownIdIsNotFound ==
    serving =>
    /\ \A sid \in UnknownSids :
          /\ api_sessions_messages_status(sid) = 404
          /\ api_sessions_delete_status(sid) = 404
          /\ \A t \in Titles \ {NoTitle} :
                api_sessions_rename_status(sid, t) = 404
          /\ api_sessions_export_status(sid) = 404
    /\ \A tid \in UnknownTids : api_templates_delete_status(tid) = 404

\* ---------------------------------------------------------------------- C24
\* The rows of table messages of session q, by id.
RECURSIVE RowsOf(_, _)
RowsOf(ms, q) ==
    IF ms = <<>> THEN <<>>
    ELSE IF Head(ms).session_id = q THEN <<Head(ms)>> \o RowsOf(Tail(ms), q)
         ELSE RowsOf(Tail(ms), q)

\* C24: deleting session sid leaves no session sid and no message of sid,
\* and leaves every other session, the messages of every other session id
\* and all templates as they were.
C24_DeleteCascades ==
    [][\A sid \in 1..next_sid :
        api_sessions_delete(sid) =>
            /\ sid \notin DOMAIN sessions'
            /\ RowsOf(messages', sid) = <<>>
            /\ DOMAIN sessions' = DOMAIN sessions \ {sid}
            /\ \A q \in DOMAIN sessions' : sessions'[q] = sessions[q]
            /\ \A q \in (1..next_sid) \ {sid} :
                  RowsOf(messages', q) = RowsOf(messages, q)
            /\ templates' = templates
      ]_vars

\* A session whose messages a chat request had stored was deleted, its
\* messages are gone, and another session still has its messages and a
\* template its row.
C24_Witness ==
    /\ \E r \in DOMAIN relays :
          /\ relays[r].wiped
          /\ relays[r].sid \notin DOMAIN sessions
          /\ RowsOf(messages, relays[r].sid) = <<>>
    /\ \E q \in DOMAIN sessions : RowsOf(messages, q) # <<>>
    /\ DOMAIN templates # {}

\* ---------------------------------------------------------------------- C25
\* C25: a reload switches active_port only from its wait, after its own
\* start_vllm_on_port, in a step where the backend on new_port answers the
\* readiness poll, to new_port, with no process stopped in that step; the
\* stop of the old port begins only from the switched handler, when
\* active_port is already new_port; and active_port changes in no other
\* step.
C25_ReloadStepOrder ==
    [][/\ \A h \in Handlers :
            /\ (rl[h].pc # "switched" /\ rl'[h].pc = "switched") =>
                   /\ rl[h].pc = "polling"
                   /\ \E i \in DOMAIN started : started[i] = rl[h].new_port
                   /\ ServingPid(rl[h].new_port) # 0
                   /\ active_port' = rl[h].new_port
                   /\ rl'[h].stop_port = active_port
                   /\ procs' = procs
            /\ (rl[h].pc # "stopping" /\ rl'[h].pc = "stopping"
                    /\ rl'[h].status = 200) =>
                   /\ rl[h].pc = "switched"
                   /\ active_port = rl[h].new_port
                   /\ active_port' = active_port
       /\ active_port' # active_port =>
              \E h \in Handlers :
                  rl[h].pc = "polling" /\ rl'[h].pc = "switched"]_vars

\* A successful reload is inside the stop of the old port, the new port
\* active, the old process terminated.
C25_Witness ==
    \E h \in Handlers :
        /\ rl[h].pc = "stopping"
        /\ rl[h].status = 200
        /\ active_port = rl[h].new_port
        /\ rl[h].stop_port # rl[h].new_port
        /\ rl[h].stop_port \in Tracked
        /\ procs[vllm_procs[rl[h].stop_port]].state = "Exited"

\* ---------------------------------------------------------------------- C26
\* C26: every stored message belongs to an existing session: the session_id
\* of every row of messages is the id of a row of sessions.
C26_MessagesBelongToSessions ==
    \A i \in DOMAIN messages : messages[i].session_id \in DOMAIN sessions

\* ---------------------------------------------------------------------- C27
\* The texts of the token events the first n lines of a stream stand for.
RECURSIVE EventsOf(_, _)
EventsOf(stream, n) ==
    IF n = 0 THEN <<>>
    ELSE LET line == stream[n] IN
         IF line.data /\ ~line.done /\ line.content # <<>>
         THEN Append(EventsOf(stream, n - 1), line.content)
         ELSE EventsOf(stream, n - 1)

\* C27: the token events a streaming relay has emitted are those of the
\* lines of the backend's stream it has read so far, however the stream was
\* cut into chunks.
C27_EventsIndependentOfChunking ==
    \A r \in Streams :
        \A pid \in relays[r].srcs :
            relays[r].tokens =
                EventsOf(BackendStream(pid, relays[r].model), relays[r].pos)

\* ---------------------------------------------------------------------- C28
\* C28: a chat request that names no model is sent to its backend with a
\* model identifier this backend serves (the one it was started with), also
\* when the backend is one a reload switched to.
C28_DefaultModelIsServed ==
    \A r \in DOMAIN relays :
        (relays[r].conn # 0 /\ relays[r].model = current_model)
            => procs[relays[r].conn].model = relays[r].model

\* ---------------------------------------------------------------------- C29
\* C29: a streaming relay that ended without being cancelled ended on its
\* one terminal event, done or error: none ends at the end of the backend's
\* body with no terminal event emitted (outcome "eof").
C29_OneTerminalEvent ==
    \A r \in Streams :
        relays[r].pc \notin {"resp", "streaming", "cancelled"}
            => relays[r].pc \in {"done", "error"}

\* ---------------------------------------------------------------------- C30
\* C30: whenever no reload is in progress, the tracked backend ports are
\* exactly {active_port}.
C30_IdleTracksOnlyActive ==
    (\A h \in Handlers : IdleHandler(h)) => Tracked = {active_port}

\* Two overlapping reloads were answered, one 200 and one 500, no reload is
\* in progress, and the one tracked port is the port of the successful one.
C30_Witness ==
    /\ \A h \in Handlers : IdleHandler(h)
    /\ \E h, g \in Handlers : rl[h].status = 200 /\ rl[g].status = 500
    /\ active_port # BASE_VLLM_PORT
    /\ Tracked = {active_port}

\* ---------------------------------------------------------------------- C31
\* C31: the port a reload calls start_vllm_on_port on is not tracked when
\* the call begins and when it assigns the entry, is not active_port and is
\* not the new port of another reload in progress; and no step changes the
\* process recorded under a port that stays tracked.
C31_ReloadStartsUntrackedPort ==
    [][/\ \A h \in Handlers :
            /\ (rl[h].pc # "starting" /\ rl'[h].pc = "starting") =>
                   LET p == rl'[h].new_port IN
                   /\ p \notin Tracked
                   /\ p # active_port
                   /\ \A g \in Handlers \ {h} :
                          ~IdleHandler(g) => rl[g].new_port # p
            /\ (rl[h].pc = "starting" /\ rl'[h].pc = "polling") =>
                   /\ rl[h].new_port \notin Tracked
                   /\ rl[h].new_port \in Tracked'
       /\ \A q \in Tracked \cap Tracked' : vllm_procs'[q] = vllm_procs[q]]_vars

\* Two reloads are waiting for their backends on two different new ports,
\* both tracked beside active_port, after an earlier start.
C31_Witness ==
    \E h, g \in Handlers :
        /\ h # g
        /\ rl[h].pc = "polling"
        /\ rl[g].pc = "polling"
        /\ rl[h].new_port # rl[g].new_port
        /\ {active_port, rl[h].new_port, rl[g].new_port} \subseteq Tracked
        /\ Cardinality(Tracked) = 3

====
